---- MODULE Spec2Model ----
(***************************************************************************)
(* Session / pairing engine of the video shuffle server (src/index.js).    *)
(* The server is single-threaded: every handler (message, close, interval  *)
(* tick, delayed shuffle) runs to completion, so each handler is one       *)
(* action.  Participant identities are UUID strings compared with the      *)
(* JavaScript string order; they are modelled as the integers 1..MaxConn   *)
(* with the integer order.                                                 *)
(***************************************************************************)
EXTENDS Integers, Sequences, FiniteSets, TLC

\* ---- bounds of the model -------------------------------------------------
MaxConn == 3        \* connections of the one-session specification
MaxMultiConn == 2   \* connections of the two-session specification

\* ---- program constants ---------------------------------------------------
CountdownDuration == 10

Ids == 1..MaxConn
MultiIds == 1..MaxMultiConn
ReuseIds == 1..(MaxConn + 1)
AllIds == Ids \cup MultiIds \cup ReuseIds
Codes == {"X"}
MultiCodes == {"X", "Y"}
Names == {"ann", "bob"}
Signals == {"sdp"}
ObservedNames == {"ann"}
Undefined == "undefined"

\* participants[undefined]: the key "undefined" is no connection's ws.id
NoSuchId == 0

VARIABLES
    sessions,   \* the session table: codes in insertion order, each with
                \* participants (insertion order), links and timer
    sockets,    \* per connection: readyState and the sessionCode field
    intervals,  \* live setInterval timers: [id, code]
    timeouts,   \* pending setTimeout callbacks: [code, orphan]
    sent,       \* the messages handed to open sockets by the last handler
    lastEvent,  \* which handler ran last, with which input, and the session
                \* it shuffled (if any)
    remembered, \* one shuffle message of an earlier round, kept by an observer
    process     \* the Node process: "running", or "crashed" by an uncaught exception

vars == <<sessions, sockets, intervals, timeouts, sent, lastEvent, remembered,
          process>>

\* ---- the session table (a JavaScript object: ordered string keys) --------
SessionCodes(tbl) == {tbl[k].code : k \in 1..Len(tbl)}

HasSession(tbl, code) == code \in SessionCodes(tbl)

SessionIndex(tbl, code) == CHOOSE k \in 1..Len(tbl) : tbl[k].code = code

GetSession(tbl, code) == tbl[SessionIndex(tbl, code)]

PutSession(tbl, session) ==
    IF HasSession(tbl, session.code)
    THEN [tbl EXCEPT ![SessionIndex(tbl, session.code)] = session]
    ELSE Append(tbl, session)

DeleteSession(tbl, code) ==
    LET k == SessionIndex(tbl, code)
    IN  [i \in 1..(Len(tbl) - 1) |-> IF i < k THEN tbl[i] ELSE tbl[i + 1]]

\* timer: null
NoTimer == 0

\* { participants: {}, links: {}, timer: null }
NewSession(code) ==
    [code |-> code, participants |-> <<>>, links |-> <<>>, timer |-> NoTimer]

\* ---- a session's participants (an object keyed by ws.id) -----------------
ParticipantIds(session) ==
    [k \in 1..Len(session.participants) |-> session.participants[k].id]

ParticipantIdSet(session) ==
    {session.participants[k].id : k \in 1..Len(session.participants)}

ParticipantCount(session) == Len(session.participants)

ParticipantIndex(session, id) ==
    CHOOSE k \in 1..Len(session.participants) : session.participants[k].id = id

ParticipantNameOf(session, id) ==
    session.participants[ParticipantIndex(session, id)].name

ParticipantNames(session) ==
    [k \in 1..Len(session.participants) |-> session.participants[k].name]

\* participants[id] = { name, socket }: an existing key keeps its position
SetParticipant(session, id, name) ==
    IF id \in ParticipantIdSet(session)
    THEN [session EXCEPT
            !.participants[ParticipantIndex(session, id)] = [id |-> id, name |-> name]]
    ELSE [session EXCEPT
            !.participants = Append(session.participants, [id |-> id, name |-> name])]

\* delete participants[id]
RemoveParticipant(session, id) ==
    LET k == ParticipantIndex(session, id)
        p == session.participants
    IN  [session EXCEPT
            !.participants = [i \in 1..(Len(p) - 1) |-> IF i < k THEN p[i] ELSE p[i + 1]]]

IsOpen(socks, id) == socks[id].readyState = "OPEN"

\* ---- broadcastToSession --------------------------------------------------
RECURSIVE SendToOpen(_, _, _, _)
SendToOpen(socks, ids, k, msg) ==
    IF k > Len(ids) THEN <<>>
    ELSE (IF IsOpen(socks, ids[k]) THEN <<[to |-> ids[k]] @@ msg>> ELSE <<>>)
         \o SendToOpen(socks, ids, k + 1, msg)

broadcastToSession(tbl, socks, code, msg) ==
    IF HasSession(tbl, code)
    THEN SendToOpen(socks, ParticipantIds(GetSession(tbl, code)), 1, msg)
    ELSE <<>>

ParticipantListUpdate(session) ==
    [type |-> "participantListUpdate", payload |-> ParticipantNames(session)]

ShuffleCountdown ==
    [type |-> "shuffle-countdown", duration |-> CountdownDuration]

\* ---- performShuffle ------------------------------------------------------
\* Math.floor(Math.random() * (i + 1)) for i = n-1 .. 1, with 1-based indices
RandomChoices(n) == {rnd \in [2..n -> 1..n] : \A i \in 2..n : rnd[i] <= i}

Swap(arr, i, j) == [arr EXCEPT ![i] = arr[j], ![j] = arr[i]]

RECURSIVE FisherYates(_, _, _)
FisherYates(arr, i, rnd) ==
    IF i <= 1 THEN arr ELSE FisherYates(Swap(arr, i, rnd[i]), i - 1, rnd)

\* a slip: the last index is clamped instead of wrapped to the first
NextIndexClamped(i, n) == IF i < n THEN i + 1 ELSE n

\* (i + 1) % participantIds.length, with 1-based indices
NextIndex(i, n) == (i % n) + 1

RECURSIVE BuildLinks(_, _, _)
BuildLinks(participantIds, i, newLinks) ==
    IF i > Len(participantIds) THEN newLinks
    ELSE BuildLinks(participantIds, i + 1,
            (participantIds[i] :> participantIds[NextIndex(i, Len(participantIds))])
                @@ newLinks)

\* a slip: the comparison written the way the comment above it reads
PoliteIfSmaller(fromId, toId) == fromId < toId

\* a slip: an identity compared with itself
PoliteComparesSelf(fromId, toId) == fromId > fromId

\* const polite = fromId > toId
Polite(fromId, toId) == fromId > toId

\* a slip: fromId compared with its partner's partner instead of its partner
ShufflePoliteWrongEnd(newLinks, fromId) == Polite(fromId, newLinks[newLinks[fromId]])

\* const toId = newLinks[fromId]; const polite = fromId > toId
ShufflePolite(newLinks, fromId) == Polite(fromId, newLinks[fromId])

ShuffleMessage(session, newLinks, fromId) ==
    [type |-> "shuffle",
     partnerId |-> newLinks[fromId],
     partnerName |-> ParticipantNameOf(session, newLinks[fromId]),
     polite |-> ShufflePolite(newLinks, fromId)]

\* a slip: the loop over newLinks ends at the first socket that is not open
RECURSIVE SendShuffleStopsAtClosed(_, _, _, _, _)
SendShuffleStopsAtClosed(socks, session, newLinks, keys, k) ==
    IF k > Len(keys) \/ ~IsOpen(socks, keys[k]) THEN <<>>
    ELSE <<[to |-> keys[k]] @@ ShuffleMessage(session, newLinks, keys[k])>>
         \o SendShuffleStopsAtClosed(socks, session, newLinks, keys, k + 1)

RECURSIVE SendShuffle(_, _, _, _, _)
SendShuffle(socks, session, newLinks, keys, k) ==
    IF k > Len(keys) THEN <<>>
    ELSE (IF IsOpen(socks, keys[k])
          THEN <<[to |-> keys[k]] @@ ShuffleMessage(session, newLinks, keys[k])>>
          ELSE <<>>)
         \o SendShuffle(socks, session, newLinks, keys, k + 1)

\* session.links = newLinks
ReplaceLinks(session, newLinks) == [session EXCEPT !.links = newLinks]

\* st is the server state a handler works on: [sessions, intervals, timeouts,
\* sent], and shuffled: the code of the session whose links it has rebuilt
performShuffle(st, socks, sessionCode, rnd) ==
    IF ~HasSession(st.sessions, sessionCode) THEN st
    ELSE LET session == GetSession(st.sessions, sessionCode)
             participantIds ==
                 FisherYates(ParticipantIds(session), ParticipantCount(session), rnd)
             newLinks == BuildLinks(participantIds, 1, <<>>)
         IN  [st EXCEPT
                !.sessions = PutSession(st.sessions, ReplaceLinks(session, newLinks)),
                !.shuffled = sessionCode,
                !.sent = st.sent \o SendShuffle(socks, session, newLinks, participantIds, 1)]

\* ---- initiateShuffleCycle ------------------------------------------------
FreshTimer(st) ==
    CHOOSE h \in 1..(Cardinality(st.intervals) + Len(st.sessions) + 1) :
        /\ \A iv \in st.intervals : iv.id # h
        /\ \A k \in 1..Len(st.sessions) : st.sessions[k].timer # h

clearInterval(ivs, handle) == {iv \in ivs : iv.id # handle}

\* a slip: the timer field is reset but the interval is left running
ClearSessionTimerKeepsInterval(st, sessionCode) ==
    [st EXCEPT
        !.sessions = PutSession(st.sessions,
                        [GetSession(st.sessions, sessionCode) EXCEPT !.timer = NoTimer])]

\* if (session.timer) { clearInterval(session.timer); session.timer = null; }
ClearSessionTimer(st, sessionCode) ==
    LET session == GetSession(st.sessions, sessionCode)
    IN  IF session.timer # NoTimer
        THEN [st EXCEPT
                !.intervals = clearInterval(st.intervals, session.timer),
                !.sessions = PutSession(st.sessions, [session EXCEPT !.timer = NoTimer])]
        ELSE st

\* a slip: a pair already gets the recurring timer
NeedsRecurringTimerFromTwo(session) == ParticipantCount(session) >= 2

\* if (Object.keys(session.participants).length > 2)
NeedsRecurringTimer(session) == ParticipantCount(session) > 2

StartSessionTimer(st, sessionCode) ==
    LET session == GetSession(st.sessions, sessionCode)
        handle == FreshTimer(st)
    IN  IF NeedsRecurringTimer(session)
        THEN [st EXCEPT
                !.intervals = st.intervals \cup {[id |-> handle, code |-> sessionCode]},
                !.sessions = PutSession(st.sessions, [session EXCEPT !.timer = handle])]
        ELSE st

initiateShuffleCycle(st, socks, sessionCode, rnd) ==
    IF ~HasSession(st.sessions, sessionCode) THEN st
    ELSE StartSessionTimer(
            performShuffle(ClearSessionTimer(st, sessionCode), socks, sessionCode, rnd),
            sessionCode)

\* ---- the handlers --------------------------------------------------------
ServerState == [sessions |-> sessions, intervals |-> intervals,
                timeouts |-> timeouts, sent |-> <<>>, shuffled |-> Undefined]

\* the handler has run to completion in the live process: done is the state
\* it leaves behind
Commit(st, event) ==
    /\ process = "running"
    /\ UNCHANGED process
    /\ \E done \in {st} :
           /\ sessions' = done.sessions
           /\ intervals' = done.intervals
           /\ timeouts' = done.timeouts
           /\ sent' = done.sent
           /\ lastEvent' = event @@ [shuffled |-> done.shuffled]
    /\ UNCHANGED remembered

RandomFor(tbl, code) ==
    IF HasSession(tbl, code)
    THEN RandomChoices(ParticipantCount(GetSession(tbl, code)))
    ELSE {<<>>}

Init ==
    /\ sessions = <<>>
    /\ sockets = [id \in AllIds |-> [readyState |-> "NONE", sessionCode |-> Undefined]]
    /\ intervals = {}
    /\ timeouts = {}
    /\ sent = <<>>
    /\ lastEvent = [type |-> "start", shuffled |-> Undefined]
    /\ remembered = <<>>
    /\ process = "running"

\* wss.on('connection'): a new socket with a fresh ws.id
Connect(id) ==
    /\ sockets[id].readyState = "NONE"
    /\ sockets' = [sockets EXCEPT ![id].readyState = "OPEN"]
    /\ Commit(ServerState, [type |-> "connection", id |-> id])

\* if (!sessions[sessionCode]) sessions[sessionCode] = {...}
EnsureSession(tbl, sessionCode) ==
    IF HasSession(tbl, sessionCode) THEN tbl ELSE Append(tbl, NewSession(sessionCode))

\* sessions[sessionCode].participants[ws.id] = { name, socket: ws }
Register(tbl, sessionCode, id, participantName) ==
    PutSession(EnsureSession(tbl, sessionCode),
        SetParticipant(GetSession(EnsureSession(tbl, sessionCode), sessionCode),
                       id, participantName))

\* a slip: the shuffle waits for a third participant
JoinTriggersShuffleAboveTwo(session) == ParticipantCount(session) > 2

\* a slip: a lone participant already triggers the shuffle
JoinTriggersShuffleFromOne(session) == ParticipantCount(session) >= 1

\* if (Object.keys(sessions[sessionCode].participants).length >= 2)
JoinTriggersShuffle(session) == ParticipantCount(session) >= 2

\* { type: 'joinSession', payload: { sessionCode, participantName } }
JoinMessage(sessionCode, participantName) ==
    [type |-> "joinSession",
     payload |-> [sessionCode |-> sessionCode, participantName |-> participantName]]

\* case 'joinSession', reached with the parsed message data
CaseJoinSession(id, sessionCode, participantName, data) ==
    /\ IsOpen(sockets, id)
    /\ sockets' = [sockets EXCEPT ![id].sessionCode = sessionCode]
    /\ LET tbl == Register(sessions, sessionCode, id, participantName)
           st0 == [ServerState EXCEPT
                     !.sessions = tbl,
                     !.sent = broadcastToSession(tbl, sockets, sessionCode,
                                  ParticipantListUpdate(GetSession(tbl, sessionCode)))]
           event == [type |-> "joinSession", id |-> id, code |-> sessionCode,
                     name |-> participantName, data |-> data]
       IN  \E rnd \in RandomFor(tbl, sessionCode) :
               Commit(IF JoinTriggersShuffle(GetSession(tbl, sessionCode))
                      THEN initiateShuffleCycle(st0, sockets, sessionCode, rnd)
                      ELSE st0,
                      event)

\* a well-formed joinSession message
JoinSession(id, sessionCode, participantName) ==
    CaseJoinSession(id, sessionCode, participantName,
                    JoinMessage(sessionCode, participantName))

\* { type: 'webrtc-signal', payload: { to, signal } }
SignalMessage(to, signal) ==
    [type |-> "webrtc-signal", payload |-> [to |-> to, signal |-> signal]]

\* a slip: the relayed message is addressed back to its sender
WebrtcSignalEchoed(id, to, signal) ==
    [to |-> id, type |-> "webrtc-signal", from |-> to, signal |-> signal]

\* recipient.send({ type: 'webrtc-signal', payload: { from: ws.id, signal } })
WebrtcSignal(id, to, signal) ==
    [to |-> to, type |-> "webrtc-signal", from |-> id, signal |-> signal]

\* a slip: the recipient is looked up in every session of the table
HasRecipientAnywhere(tbl, socks, id, to) ==
    \E n \in 1..Len(tbl) : to \in ParticipantIdSet(tbl[n])

\* sessions[ws.sessionCode]?.participants[to]?.socket is defined
HasRecipient(tbl, socks, id, to) ==
    /\ HasSession(tbl, socks[id].sessionCode)
    /\ to \in ParticipantIdSet(GetSession(tbl, socks[id].sessionCode))

\* case 'webrtc-signal', reached with the parsed message data: send is called
\* on the recipient's socket whatever its readyState is (attempted); a socket
\* that is not OPEN delivers nothing
CaseWebrtcSignal(id, to, signal, data) ==
    /\ IsOpen(sockets, id)
    /\ UNCHANGED sockets
    /\ LET found == HasRecipient(sessions, sockets, id, to)
       IN  Commit([ServerState EXCEPT
                     !.sent = IF found /\ IsOpen(sockets, to)
                              THEN <<WebrtcSignal(id, to, signal)>>
                              ELSE <<>>],
                  [type |-> "webrtc-signal", id |-> id, to |-> to,
                   signal |-> signal, found |-> found, attempted |-> found,
                   data |-> data])

\* a well-formed webrtc-signal message
RelaySignal(id, to, signal) ==
    CaseWebrtcSignal(id, to, signal, SignalMessage(to, signal))

\* the transport starts closing: readyState leaves OPEN before 'close' is emitted
SocketClosing(id) ==
    /\ sockets[id].readyState = "OPEN"
    /\ sockets' = [sockets EXCEPT ![id].readyState = "CLOSING"]
    /\ Commit(ServerState, [type |-> "closing", id |-> id])

\* for (const sessionCode in sessions) if (sessions[sessionCode].participants[ws.id])
\* ... break: the first session, in key order, that holds ws.id (0: none)
FirstSessionOf(tbl, id) ==
    LET holding == {k \in 1..Len(tbl) : id \in ParticipantIdSet(tbl[k])}
    IN  IF holding = {} THEN 0
        ELSE CHOOSE k \in holding : \A j \in holding : k <= j

\* if (Object.keys(sessions[sessionCode].participants).length === 0)
SessionIsEmpty(session) == ParticipantCount(session) = 0

\* a slip: a leave that leaves a pair does not reshuffle
LeaveTriggersShuffleAboveTwo(session) == ParticipantCount(session) > 2

\* if (Object.keys(sessions[sessionCode].participants).length > 1)
LeaveTriggersShuffle(session) == ParticipantCount(session) > 1

\* a slip: the interval is cleared but the table entry is not deleted
DestroySessionKeepsEntry(st, sessionCode) ==
    [st EXCEPT
        !.intervals = clearInterval(st.intervals, GetSession(st.sessions, sessionCode).timer)]

\* clearInterval(sessions[sessionCode].timer); delete sessions[sessionCode];
\* a timeout still pending for the code is from now on an orphan of the
\* deleted session (no clearTimeout exists in the source)
DestroySession(st, sessionCode) ==
    [st EXCEPT
        !.intervals = clearInterval(st.intervals, GetSession(st.sessions, sessionCode).timer),
        !.sessions = DeleteSession(st.sessions, sessionCode),
        !.timeouts = {[t EXCEPT !.orphan = (t.orphan \/ t.code = sessionCode)] :
                         t \in st.timeouts}]

\* ws.on('close')
Close(id) ==
    /\ sockets[id].readyState \in {"OPEN", "CLOSING"}
    /\ sockets' = [sockets EXCEPT ![id].readyState = "CLOSED"]
    /\ LET k == FirstSessionOf(sessions, id)
       IN  IF k = 0
           THEN Commit(ServerState, [type |-> "close", id |-> id, code |-> Undefined,
                                     destroyed |-> FALSE])
           ELSE LET sessionCode == sessions[k].code
                    session == RemoveParticipant(sessions[k], id)
                    tbl == PutSession(sessions, session)
                    st0 == [ServerState EXCEPT !.sessions = tbl]
                    event == [type |-> "close", id |-> id, code |-> sessionCode,
                              destroyed |-> SessionIsEmpty(session)]
                IN  IF SessionIsEmpty(session)
                    THEN Commit(DestroySession(st0, sessionCode), event)
                    ELSE LET st1 == [st0 EXCEPT
                                       !.sent = broadcastToSession(tbl, sockets',
                                                    sessionCode,
                                                    ParticipantListUpdate(session))]
                         IN  \E rnd \in RandomFor(tbl, sessionCode) :
                                 Commit(IF LeaveTriggersShuffle(session)
                                        THEN initiateShuffleCycle(st1, sockets',
                                                 sessionCode, rnd)
                                        ELSE st1,
                                        event)

\* a slip: the callback broadcasts the countdown and schedules no shuffle
ScheduleNothing(pending, sessionCode) == pending

\* setTimeout(() => performShuffle(sessionCode), 3000)
ScheduleDelayedShuffle(pending, sessionCode) ==
    pending \cup {[code |-> sessionCode, orphan |-> FALSE]}

\* the setInterval callback: countdown broadcast, then setTimeout(performShuffle, 3000).
\* The interval period (10 minutes) exceeds the delay (3 s), so the delayed
\* shuffle of a code has run before an interval of that code fires again.
IntervalTick(iv) ==
    /\ iv \in intervals
    /\ \A t \in timeouts : t.code # iv.code
    /\ UNCHANGED sockets
    /\ Commit([ServerState EXCEPT
                 !.sent = broadcastToSession(sessions, sockets, iv.code, ShuffleCountdown),
                 !.timeouts = ScheduleDelayedShuffle(timeouts, iv.code)],
              [type |-> "interval", code |-> iv.code])

\* the setTimeout callback: performShuffle(sessionCode)
DelayedShuffle(t) ==
    /\ t \in timeouts
    /\ UNCHANGED sockets
    /\ \E rnd \in RandomFor(sessions, t.code) :
           Commit(performShuffle([ServerState EXCEPT !.timeouts = timeouts \ {t}],
                                 sockets, t.code, rnd),
                  [type |-> "timeout", code |-> t.code, orphan |-> t.orphan])

\* ---- ws.on('message'): raw inbound messages ---------------------------------
\* A raw message is text: either JSON.parse rejects it, or it parses to data.
\* A field the payload does not carry destructures to undefined.
Unparseable == [parses |-> FALSE]

NoFields == [f \in {} |-> Undefined]

JoinPayloads ==
    {[sessionCode |-> c, participantName |-> n] : c \in Codes, n \in ObservedNames}
        \cup {[sessionCode |-> c] : c \in Codes}
        \cup {[participantName |-> n] : n \in ObservedNames}
        \cup {NoFields}

SignalPayloads ==
    {[to |-> to, signal |-> signal] : to \in MultiIds, signal \in Signals}
        \cup {[signal |-> signal] : signal \in Signals}

UnknownTypes == {"ping"}

RawData ==
    {[type |-> t] : t \in {"joinSession", "webrtc-signal"} \cup UnknownTypes}
        \cup {[type |-> "joinSession", payload |-> p] : p \in JoinPayloads}
        \cup {[type |-> "webrtc-signal", payload |-> p] : p \in SignalPayloads}
        \cup {[type |-> t, payload |-> p] :
                 t \in UnknownTypes,
                 p \in {[sessionCode |-> c, participantName |-> n] :
                           c \in Codes, n \in ObservedNames}}

RawMessages == {Unparseable} \cup {[parses |-> TRUE, data |-> d] : d \in RawData}

Field(object, name) == IF name \in DOMAIN object THEN object[name] ELSE Undefined

\* participants[to]: a missing to is the key "undefined"
RecipientKey(payload) == IF "to" \in DOMAIN payload THEN payload.to ELSE NoSuchId

\* const { ... } = data.payload throws a TypeError when payload is undefined
HasPayload(data) == "payload" \in DOMAIN data

\* a slip: every type that is not webrtc-signal falls into the join case
IsJoinSessionOrDefault(data) == data.type # "webrtc-signal"

\* case 'joinSession':
IsJoinSession(data) == data.type = "joinSession"

\* case 'webrtc-signal':
IsWebrtcSignal(data) == data.type = "webrtc-signal"

\* An exception thrown inside the message listener is caught nowhere: the
\* process terminates, every connection is gone and the session table with it.
UncaughtException(id, message) ==
    /\ process = "running"
    /\ process' = "crashed"
    /\ sockets' = [i \in AllIds |->
                     IF sockets[i].readyState = "NONE" THEN sockets[i]
                     ELSE [sockets[i] EXCEPT !.readyState = "CLOSED"]]
    /\ sessions' = <<>>
    /\ intervals' = {}
    /\ timeouts' = {}
    /\ sent' = <<>>
    /\ lastEvent' = [type |-> "uncaughtException", id |-> id, message |-> message,
                     shuffled |-> Undefined]
    /\ UNCHANGED remembered

\* a type without a case: the switch does nothing
NoCase(id, data) ==
    /\ UNCHANGED sockets
    /\ Commit(ServerState, [type |-> "message", id |-> id, data |-> data])

\* ws.on('message', message => { const data = JSON.parse(message); switch ... })
Message(id, message) ==
    /\ IsOpen(sockets, id)
    /\ IF ~message.parses THEN UncaughtException(id, message)
       ELSE LET data == message.data
            IN  IF IsJoinSession(data)
                THEN IF HasPayload(data)
                     THEN CaseJoinSession(id, Field(data.payload, "sessionCode"),
                                          Field(data.payload, "participantName"), data)
                     ELSE UncaughtException(id, message)
                ELSE IF IsWebrtcSignal(data)
                THEN IF HasPayload(data)
                     THEN CaseWebrtcSignal(id, RecipientKey(data.payload),
                                           Field(data.payload, "signal"), data)
                     ELSE UncaughtException(id, message)
                ELSE NoCase(id, data)

\* parsed messages of a type that has no case
UnknownData == {data \in RawData : data.type \in UnknownTypes}

\* one session code, MaxConn connections: joins, leaves, relay, messages of an
\* unknown type and both timers
Next ==
    \/ \E id \in Ids, data \in UnknownData :
           Message(id, [parses |-> TRUE, data |-> data])
    \/ \E id \in Ids : Connect(id)
    \/ \E id \in Ids, code \in Codes, name \in Names : JoinSession(id, code, name)
    \/ \E id \in Ids, to \in Ids, signal \in Signals : RelaySignal(id, to, signal)
    \/ \E id \in Ids : SocketClosing(id)
    \/ \E id \in Ids : Close(id)
    \/ \E iv \in intervals : IntervalTick(iv)
    \/ \E t \in timeouts : DelayedShuffle(t)

Spec == Init /\ [][Next]_vars

\* two session codes, MaxMultiConn connections: a connection may join both.
\* Nothing here brings a session above two participants, so no interval is
\* ever created and the two timer callbacks have nothing to run on.
NextMulti ==
    \/ \E id \in MultiIds : Connect(id)
    \/ \E id \in MultiIds, code \in MultiCodes, name \in Names :
           JoinSession(id, code, name)
    \/ \E id \in MultiIds, to \in MultiIds, signal \in Signals :
           RelaySignal(id, to, signal)
    \/ \E id \in MultiIds : SocketClosing(id)
    \/ \E id \in MultiIds : Close(id)

SpecMulti == Init /\ [][NextMulti]_vars

\* one session code and one connection more than MaxConn, so that a code can be
\* joined again after a session of three has lost all its participants
NextReuse ==
    \/ \E id \in ReuseIds : Connect(id)
    \/ \E id \in ReuseIds, code \in Codes, name \in ObservedNames :
           JoinSession(id, code, name)
    \/ \E id \in ReuseIds : Close(id)
    \/ \E iv \in intervals : IntervalTick(iv)
    \/ \E t \in timeouts : DelayedShuffle(t)

SpecReuse == Init /\ [][NextReuse]_vars

\* one session code, MaxConn connections, one name: joins, leaves and both
\* timers.  A setTimeout callback that is pending is run by the event loop once
\* its delay has elapsed: weak fairness of the delayed shuffle.
NextTimed ==
    \/ \E id \in Ids : Connect(id)
    \/ \E id \in Ids, code \in Codes, name \in ObservedNames :
           JoinSession(id, code, name)
    \/ \E id \in Ids : SocketClosing(id)
    \/ \E id \in Ids : Close(id)
    \/ \E iv \in intervals : IntervalTick(iv)
    \/ \E t \in timeouts : DelayedShuffle(t)

SpecTimed ==
    Init /\ [][NextTimed]_vars /\ WF_vars(\E t \in timeouts : DelayedShuffle(t))

\* raw messages of every shape on MaxMultiConn connections
NextRaw ==
    \/ \E id \in MultiIds : Connect(id)
    \/ \E id \in MultiIds, message \in RawMessages : Message(id, message)
    \/ \E id \in MultiIds : SocketClosing(id)
    \/ \E id \in MultiIds : Close(id)

SpecRaw == Init /\ [][NextRaw]_vars

\* two session codes with timers: the connections of Ids join X, which can
\* reach three participants and run its interval, while the last of them and
\* one more connection join Y
IsolatedJoins ==
    (Ids \X {"X"}) \cup ((ReuseIds \ (1..(MaxConn - 1))) \X {"Y"})

NextIsolated ==
    \/ \E id \in ReuseIds : Connect(id)
    \/ \E join \in IsolatedJoins, name \in ObservedNames :
           JoinSession(join[1], join[2], name)
    \/ \E id \in ReuseIds, to \in ReuseIds, signal \in Signals :
           RelaySignal(id, to, signal)
    \/ \E id \in ReuseIds : Close(id)
    \/ \E iv \in intervals : IntervalTick(iv)
    \/ \E t \in timeouts : DelayedShuffle(t)

SpecIsolated == Init /\ [][NextIsolated]_vars

\* ---- two rounds compared ---------------------------------------------------
\* An observer keeps one shuffle message of the round just delivered, to hold
\* it against the messages of every later round.
Remember(k) ==
    /\ k \in 1..Len(sent)
    /\ sent[k].type = "shuffle"
    /\ remembered = <<>>
    /\ process = "running"
    /\ remembered' = <<sent[k], lastEvent.type>>
    /\ UNCHANGED <<sessions, sockets, intervals, timeouts, sent, lastEvent, process>>

NextObserved ==
    \/ \E id \in Ids : Connect(id)
    \/ \E id \in Ids, code \in Codes, name \in ObservedNames :
           JoinSession(id, code, name)
    \/ \E id \in Ids : Close(id)
    \/ \E iv \in intervals : IntervalTick(iv)
    \/ \E t \in timeouts : DelayedShuffle(t)
    \/ \E k \in 1..Len(sent) : Remember(k)

SpecObserved == Init /\ [][NextObserved]_vars

\* ---- the client's reaction to a shuffle message ---------------------------
\* handleWebRTCConnection: if (!polite) { createOffer ... send the offer }
SendsInitialOffer(polite) == ~polite

\* ---- the client's reaction to a participantListUpdate ----------------------
\* partnerIdRef.current = null
NoPartner == 0

\* p.id for an item p of the list: the server sends the names, which are
\* strings, and a string has no property id (undefined)
ListItemId(item) == NoSuchId

\* participantList.some(p => p.id === partnerIdRef.current)
ListHasPartner(participantList, partnerId) ==
    \E k \in 1..Len(participantList) : ListItemId(participantList[k]) = partnerId

\* if (partnerIdRef.current && !participantList.some(...)) partnerIdRef.current = null
PartnerAfterListUpdate(partnerId, participantList) ==
    IF partnerId # NoPartner /\ ~ListHasPartner(participantList, partnerId)
    THEN NoPartner
    ELSE partnerId

\* ---- reading the state -----------------------------------------------------
Range(f) == {f[x] : x \in DOMAIN f}

ShuffleIndexes == {k \in 1..Len(sent) : sent[k].type = "shuffle"}

IndexesTo(id, type) == {k \in 1..Len(sent) : sent[k].to = id /\ sent[k].type = type}

RECURSIVE Follow(_, _, _)
Follow(links, id, steps) ==
    IF steps = 0 THEN id ELSE Follow(links, links[id], steps - 1)

IsSingleCycle(links) ==
    /\ Range(links) \subseteq DOMAIN links
    /\ \A a \in DOMAIN links :
           {Follow(links, a, k) : k \in 1..Cardinality(DOMAIN links)} = DOMAIN links

AllOpen(session) == \A id \in ParticipantIdSet(session) : IsOpen(sockets, id)

JustShuffled == lastEvent.shuffled # Undefined

ShuffledSession == GetSession(sessions, lastEvent.shuffled)

ToldPolite(id) == \E k \in IndexesTo(id, "shuffle") : sent[k].polite

InitialOffers ==
    {<<sent[k].to, sent[k].partnerId>> :
        k \in {j \in ShuffleIndexes : SendsInitialOffer(sent[j].polite)}}

\* ---- C1 ---------------------------------------------------------------------
\* C1: whenever a handler has just run performShuffle on a session of n >= 2
\* participants, whatever permutation it drew, the session's links are exactly
\* n directed links, one from each current participant, that form one single
\* cycle through all of them, and nobody is linked to itself.
C1_ShuffleFormsSingleCycle ==
    (JustShuffled /\ ParticipantCount(ShuffledSession) >= 2) =>
        LET links == ShuffledSession.links
        IN  /\ DOMAIN links = ParticipantIdSet(ShuffledSession)
            /\ Cardinality(DOMAIN links) = ParticipantCount(ShuffledSession)
            /\ IsSingleCycle(links)
            /\ \A id \in DOMAIN links : links[id] # id

C1_Witness ==
    /\ JustShuffled
    /\ ParticipantCount(ShuffledSession) = 3
    /\ ShuffledSession.links = (1 :> 3) @@ (3 :> 2) @@ (2 :> 1)

\* ---- C2 ---------------------------------------------------------------------
\* C2: when B's joinSession makes a session hold exactly A then B, both with
\* open connections, the handler sends participantListUpdate [A's name, B's
\* name] to A and to B and after these one shuffle message to each, naming the
\* other as partner, exactly one of the two with polite: true.
C2_SecondJoinPairsBoth ==
    (/\ lastEvent.type = "joinSession"
     /\ ParticipantCount(GetSession(sessions, lastEvent.code)) = 2
     /\ GetSession(sessions, lastEvent.code).participants[2].id = lastEvent.id
     /\ AllOpen(GetSession(sessions, lastEvent.code))) =>
        LET a == GetSession(sessions, lastEvent.code).participants[1]
            b == GetSession(sessions, lastEvent.code).participants[2]
            list == [type |-> "participantListUpdate", payload |-> <<a.name, b.name>>]
        IN  /\ Len(sent) = 4
            /\ sent[1] = [to |-> a.id] @@ list
            /\ sent[2] = [to |-> b.id] @@ list
            /\ \E i, j \in {3, 4} :
                   /\ i # j
                   /\ sent[i].type = "shuffle" /\ sent[j].type = "shuffle"
                   /\ sent[i].to = a.id /\ sent[i].partnerId = b.id
                   /\ sent[i].partnerName = b.name
                   /\ sent[j].to = b.id /\ sent[j].partnerId = a.id
                   /\ sent[j].partnerName = a.name
                   /\ sent[i].polite # sent[j].polite

C2_Witness ==
    /\ lastEvent.type = "joinSession"
    /\ lastEvent.id = 1
    /\ ParticipantIds(GetSession(sessions, "X")) = <<2, 1>>
    /\ ParticipantNames(GetSession(sessions, "X")) = <<"ann", "bob">>
    /\ AllOpen(GetSession(sessions, "X"))
    /\ Len(sent) = 4

\* ---- C3 ---------------------------------------------------------------------
\* C3 (as claimed): after a shuffle of a session of n >= 2 participants, all
\* connections open, for every link A -> B exactly one of A and B is told
\* polite: true in that round and the other polite: false.
C3_EachLinkHasOnePoliteEnd ==
    (JustShuffled /\ ParticipantCount(ShuffledSession) >= 2
        /\ AllOpen(ShuffledSession)) =>
        \A a \in DOMAIN ShuffledSession.links :
            ToldPolite(a) # ToldPolite(ShuffledSession.links[a])

\* ---- C4 ---------------------------------------------------------------------
\* C4: if P was told partner Q with some polite value in any earlier round (the
\* one the observer remembered), then every shuffle message of the current round
\* that tells P the partner Q carries the same polite value, whatever the
\* permutation and the other members of the two rounds are.
C4_PoliteDependsOnPairOnly ==
    remembered # <<>> =>
        \A k \in ShuffleIndexes :
            (sent[k].to = remembered[1].to
                /\ sent[k].partnerId = remembered[1].partnerId) =>
                sent[k].polite = remembered[1].polite

C4_Witness ==
    /\ remembered # <<>>
    /\ remembered[2] = "joinSession"
    /\ lastEvent.type = "timeout"
    /\ ParticipantCount(GetSession(sessions, "X")) = 3
    /\ \E k \in ShuffleIndexes :
           /\ sent[k].to = remembered[1].to
           /\ sent[k].partnerId = remembered[1].partnerId
           /\ sent[k].polite

\* ---- C5 ---------------------------------------------------------------------
\* C5 (as claimed): with clients that send the initial offer to their partner
\* exactly when told polite: false, after a shuffle of a session of n >= 2
\* participants nobody both sends an initial offer and is sent one by another
\* participant in the same round.
C5_NoSimultaneousOffers ==
    (JustShuffled /\ ParticipantCount(ShuffledSession) >= 2) =>
        \A p \in ParticipantIdSet(ShuffledSession) :
            ~ /\ \E o \in InitialOffers : o[1] = p
              /\ \E o \in InitialOffers : o[2] = p /\ o[1] # p

\* ---- C6 ---------------------------------------------------------------------
\* C6: after a joinSession handler the connection is a participant of the
\* session of the given code (which exists) under the given name, and the
\* connection's sessionCode is that code; every open member, the joiner
\* included, was sent exactly one participantListUpdate carrying the names of
\* all current members, and nobody else was sent one; a shuffle ran if and only
\* if the session now has >= 2 participants, in which case each open member was
\* sent exactly one shuffle message, after its participantListUpdate.
C6_JoinBroadcastsThenShuffles ==
    lastEvent.type = "joinSession" =>
        /\ HasSession(sessions, lastEvent.code)
        /\ LET session == GetSession(sessions, lastEvent.code)
               members == ParticipantIdSet(session)
           IN  /\ lastEvent.id \in members
               /\ ParticipantNameOf(session, lastEvent.id) = lastEvent.name
               /\ sockets[lastEvent.id].sessionCode = lastEvent.code
               /\ IsOpen(sockets, lastEvent.id)
               /\ \A k \in 1..Len(sent) : sent[k].to \in members /\ IsOpen(sockets, sent[k].to)
               /\ \A p \in members :
                      IsOpen(sockets, p) =>
                          /\ Cardinality(IndexesTo(p, "participantListUpdate")) = 1
                          /\ \A k \in IndexesTo(p, "participantListUpdate") :
                                 sent[k].payload = ParticipantNames(session)
               /\ (ParticipantCount(session) >= 2) <=> (lastEvent.shuffled = lastEvent.code)
               /\ (ParticipantCount(session) >= 2) <=> (ShuffleIndexes # {})
               /\ ParticipantCount(session) >= 2 =>
                      \A p \in members :
                          IsOpen(sockets, p) =>
                              /\ Cardinality(IndexesTo(p, "shuffle")) = 1
                              /\ \A i \in IndexesTo(p, "participantListUpdate"),
                                    j \in IndexesTo(p, "shuffle") : i < j

C6_Witness ==
    /\ lastEvent.type = "joinSession"
    /\ lastEvent.id = 3
    /\ ParticipantIds(GetSession(sessions, "X")) = <<1, 2, 3>>
    /\ sockets[1].readyState = "CLOSING"
    /\ Len(sent) = 4
    /\ sent[1].type = "participantListUpdate" /\ sent[1].to = 2
    /\ sent[4].type = "shuffle"

\* ---- C7 ---------------------------------------------------------------------
\* C7 (as claimed): when a connection's close is handled, every session that
\* held the departed connection together with at least one other participant
\* sends each of its remaining open participants a participantListUpdate with
\* the names of the participants left without the departed one, and nothing is
\* sent to the departed connection.
C7_LeaveNotifiesEverySession ==
    [][lastEvent'.type = "close" =>
          /\ \A k \in 1..Len(sent') : sent'[k].to # lastEvent'.id
          /\ \A n \in 1..Len(sessions) :
                 (lastEvent'.id \in ParticipantIdSet(sessions[n])
                     /\ ParticipantCount(sessions[n]) >= 2) =>
                     \A p \in ParticipantIdSet(sessions[n]) \ {lastEvent'.id} :
                         IsOpen(sockets', p) =>
                             \E k \in 1..Len(sent') :
                                 /\ sent'[k].to = p
                                 /\ sent'[k].type = "participantListUpdate"
                                 /\ sent'[k].payload =
                                        ParticipantNames(
                                            RemoveParticipant(sessions[n], lastEvent'.id))
      ]_vars

\* ---- C8 ---------------------------------------------------------------------
\* C8 (as claimed): between events, every session of >= 2 participants has
\* links whose keys are exactly its current participants and which form one
\* single cycle over them; and after a connection's close has been handled, no
\* session that is left with more than one participant has a link that starts
\* at or names the departed connection.
C8_LinksCoverCurrentParticipants ==
    /\ \A n \in 1..Len(sessions) :
           ParticipantCount(sessions[n]) >= 2 =>
               /\ DOMAIN sessions[n].links = ParticipantIdSet(sessions[n])
               /\ IsSingleCycle(sessions[n].links)
    /\ lastEvent.type = "close" =>
           \A n \in 1..Len(sessions) :
               ParticipantCount(sessions[n]) > 1 =>
                   /\ lastEvent.id \notin DOMAIN sessions[n].links
                   /\ lastEvent.id \notin Range(sessions[n].links)

\* ---- C9 ---------------------------------------------------------------------
\* C9 (as claimed): the table never holds a session without participants, nor
\* one all of whose participants have left (their close has been handled);
\* every live interval belongs to a session of the table and is the one in that
\* session's timer field; and once the close of a session's last participant
\* has been handled, the code is absent from the table and no interval of that
\* code is live, so no interval tick of it can send anything.
C9_EmptySessionIsRemoved ==
    /\ \A n \in 1..Len(sessions) :
           /\ ParticipantCount(sessions[n]) > 0
           /\ \E p \in ParticipantIdSet(sessions[n]) : sockets[p].readyState # "CLOSED"
    /\ \A iv \in intervals :
           /\ HasSession(sessions, iv.code)
           /\ GetSession(sessions, iv.code).timer = iv.id
    /\ (lastEvent.type = "close" /\ lastEvent.destroyed) =>
           /\ ~HasSession(sessions, lastEvent.code)
           /\ \A iv \in intervals : iv.code # lastEvent.code
           /\ sent = <<>>

\* ---- C10 --------------------------------------------------------------------
\* C10 (as claimed): every timer of a destroyed session is cancelled with it,
\* the pending delayed shuffle included: a delayed shuffle that was scheduled by
\* a session destroyed since then shuffles no session and sends no message when
\* it runs, also when a new session exists under the same code by then.
C10_OrphanRunsNothing ==
    (lastEvent.type = "timeout" /\ lastEvent.orphan) => (sent = <<>> /\ ~JustShuffled)

\* ---- C11 --------------------------------------------------------------------
\* C11 (as claimed): after any joins and closes, every connection is a
\* participant of at most one session, that session is the one recorded as the
\* connection's sessionCode, and a connection whose close has been handled is a
\* participant of no session.
SessionsHolding(id) == {n \in 1..Len(sessions) : id \in ParticipantIdSet(sessions[n])}

C11_OneSessionPerConnection ==
    \A id \in AllIds :
        /\ Cardinality(SessionsHolding(id)) <= 1
        /\ \A n \in SessionsHolding(id) : sessions[n].code = sockets[id].sessionCode
        /\ sockets[id].readyState = "CLOSED" => SessionsHolding(id) = {}

\* ---- C12 --------------------------------------------------------------------
\* C12: when a sender S that is a participant of the session recorded as its
\* sessionCode sends webrtc-signal {to: R, signal: X}, and R is a participant of
\* that session with an open connection, the handler sends exactly one message:
\* webrtc-signal {from: S, signal: X} to R, with X as it came in; nobody else,
\* in this session or outside of it, is sent anything.
C12_RelayReachesRecipientOnly ==
    (/\ lastEvent.type = "webrtc-signal"
     /\ HasSession(sessions, sockets[lastEvent.id].sessionCode)
     /\ {lastEvent.id, lastEvent.to} \subseteq
            ParticipantIdSet(GetSession(sessions, sockets[lastEvent.id].sessionCode))
     /\ IsOpen(sockets, lastEvent.to)) =>
        sent = <<[to |-> lastEvent.to, type |-> "webrtc-signal",
                  from |-> lastEvent.id,
                  signal |-> lastEvent.data.payload.signal]>>

C12_Witness ==
    /\ lastEvent.type = "webrtc-signal"
    /\ lastEvent.id = 1
    /\ lastEvent.to = 2
    /\ HasSession(sessions, "X")
    /\ ParticipantIdSet(GetSession(sessions, "X")) = {1, 2, 3}
    /\ IsOpen(sockets, 3)
    /\ Len(sent) = 1
    /\ sent[1].to = 2 /\ sent[1].from = 1 /\ sent[1].signal = "sdp"

\* ---- C13 --------------------------------------------------------------------
\* C13 (as claimed): when a webrtc-signal names a recipient that is in no
\* session the sender is a participant of (a sender that never joined is a
\* participant of none), or a recipient whose connection is not open, the
\* handler calls send on no connection and delivers nothing.
C13_RelayDropIsSilent ==
    (/\ lastEvent.type = "webrtc-signal"
     /\ \/ \A n \in SessionsHolding(lastEvent.id) :
               lastEvent.to \notin ParticipantIdSet(sessions[n])
        \/ lastEvent.to \notin AllIds
        \/ ~IsOpen(sockets, lastEvent.to)) =>
        (sent = <<>> /\ ~lastEvent.attempted)

\* ---- C14 --------------------------------------------------------------------
\* C14: no countdown is ever broadcast to a session of exactly 2 participants:
\* an interval is live only for a session of more than 2 participants, and
\* whenever an interval callback has just run, the session of its code does not
\* have 2 participants and no session of 2 was sent a shuffle-countdown.
C14_NoCountdownForPair ==
    /\ \A iv \in intervals :
           HasSession(sessions, iv.code) =>
               ParticipantCount(GetSession(sessions, iv.code)) # 2
    /\ \A n \in 1..Len(sessions) :
           ParticipantCount(sessions[n]) = 2 =>
               \A k \in 1..Len(sent) :
                   sent[k].type = "shuffle-countdown" =>
                       sent[k].to \notin ParticipantIdSet(sessions[n])

C14_Witness ==
    /\ lastEvent.type = "close"
    /\ HasSession(sessions, "X")
    /\ ParticipantCount(GetSession(sessions, "X")) = 2
    /\ timeouts # {}
    /\ intervals = {}

\* ---- C15 --------------------------------------------------------------------
\* C15 (as claimed, for the shuffles that timers run): a session of exactly 2
\* participants is shuffled only by the membership change that brought it to 2;
\* no timer callback runs a shuffle on it or sends a shuffle message to its
\* participants.
C15_PairIsNotReshuffledByTimer ==
    (lastEvent.type \in {"interval", "timeout"}) =>
        \A n \in 1..Len(sessions) :
            ParticipantCount(sessions[n]) = 2 =>
                /\ lastEvent.shuffled # sessions[n].code
                /\ \A k \in ShuffleIndexes : sent[k].to \notin ParticipantIdSet(sessions[n])

\* ---- C16 --------------------------------------------------------------------
\* C16: a session holds at most one live interval at any time: every live
\* interval belongs to a session of the table and is the one referenced by that
\* session's timer field, no two live intervals have the same code, and a timer
\* field that is set references a live interval.
IntervalsOf(code) == {iv \in intervals : iv.code = code}

C16_AtMostOneIntervalPerSession ==
    /\ \A iv \in intervals :
           /\ HasSession(sessions, iv.code)
           /\ GetSession(sessions, iv.code).timer = iv.id
           /\ Cardinality(IntervalsOf(iv.code)) = 1
    /\ \A n \in 1..Len(sessions) :
           sessions[n].timer # NoTimer =>
               \E iv \in intervals : iv.id = sessions[n].timer /\ iv.code = sessions[n].code

\* a member of a session of three, which already had its interval, joins again:
\* the interval is cancelled and created anew
C16_Witness ==
    /\ lastEvent.type = "joinSession"
    /\ HasSession(sessions, "X")
    /\ ParticipantCount(GetSession(sessions, "X")) = 3
    /\ GetSession(sessions, "X").participants[3].id # lastEvent.id
    /\ Cardinality(intervals) = 1

\* ---- C17 --------------------------------------------------------------------
\* C17: each firing of a session's interval sends shuffle-countdown with
\* duration 10 to every open participant of the session, to nobody else, and
\* schedules the delayed shuffle; a delayed shuffle runs only for a code whose
\* countdown was sent before it; when it runs on an existing session it
\* shuffles it and sends every open participant exactly one shuffle message;
\* and, the timers being fair, every countdown is eventually followed by the
\* run of the delayed shuffle.
OpenParticipants(session) == {id \in ParticipantIdSet(session) : IsOpen(sockets, id)}

PendingCodes(pending) == {t.code : t \in pending}

CountdownSentToAllOpen ==
    (lastEvent.type = "interval" /\ HasSession(sessions, lastEvent.code)) =>
        LET session == GetSession(sessions, lastEvent.code)
        IN  /\ ParticipantCount(session) > 2
            /\ \A k \in 1..Len(sent) :
                   /\ sent[k].type = "shuffle-countdown"
                   /\ sent[k].duration = 10
                   /\ sent[k].to \in OpenParticipants(session)
            /\ \A p \in OpenParticipants(session) :
                   Cardinality(IndexesTo(p, "shuffle-countdown")) = 1
            /\ lastEvent.code \in PendingCodes(timeouts)

DelayedShuffleReachesAllOpen ==
    (lastEvent.type = "timeout" /\ HasSession(sessions, lastEvent.code)) =>
        LET session == GetSession(sessions, lastEvent.code)
        IN  /\ lastEvent.shuffled = lastEvent.code
            /\ \A k \in 1..Len(sent) :
                   sent[k].type = "shuffle" /\ sent[k].to \in OpenParticipants(session)
            /\ \A p \in OpenParticipants(session) :
                   Cardinality(IndexesTo(p, "shuffle")) = 1

CountdownPrecedesShuffle ==
    /\ lastEvent'.type = "timeout" => lastEvent'.code \in PendingCodes(timeouts)
    /\ PendingCodes(timeouts') \ PendingCodes(timeouts) # {} =>
           /\ lastEvent'.type = "interval"
           /\ PendingCodes(timeouts') \ PendingCodes(timeouts) = {lastEvent'.code}

C17_CountdownThenShuffle ==
    /\ [](CountdownSentToAllOpen /\ DelayedShuffleReachesAllOpen)
    /\ [][CountdownPrecedesShuffle]_vars
    /\ (lastEvent.type = "interval") ~> (lastEvent.type = "timeout")

C17_Witness ==
    /\ lastEvent.type = "timeout"
    /\ ~lastEvent.orphan
    /\ HasSession(sessions, "X")
    /\ ParticipantCount(GetSession(sessions, "X")) = 3
    /\ sockets[2].readyState = "CLOSING"
    /\ Len(sent) = 2
    /\ \A k \in 1..Len(sent) : sent[k].type = "shuffle"

\* ---- C18 --------------------------------------------------------------------
\* C18 (as claimed): a joinSession message whose payload lacks the session code
\* or the participant name changes nothing: no session is created, nobody is
\* registered, every connection's sessionCode stays as it was, and no message
\* is sent.
LacksJoinField(data) ==
    /\ data.type = "joinSession"
    /\ HasPayload(data)
    /\ ~({"sessionCode", "participantName"} \subseteq DOMAIN data.payload)

C18_MalformedJoinIsRejected ==
    [][("data" \in DOMAIN lastEvent' /\ LacksJoinField(lastEvent'.data)) =>
          /\ UNCHANGED <<sessions, sockets, intervals, timeouts>>
          /\ sent' = <<>>
      ]_vars

\* ---- C19 --------------------------------------------------------------------
\* C19 (as claimed): a malformed inbound message (text that does not parse, a
\* joinSession or webrtc-signal without payload or without one of its fields)
\* leaves the process running and the sender's connection open, sends nothing
\* to any other connection and leaves every session the sender is not a
\* participant of as it was.
LacksField(data) ==
    \/ LacksJoinField(data)
    \/ /\ data.type = "webrtc-signal"
       /\ HasPayload(data)
       /\ ~({"to", "signal"} \subseteq DOMAIN data.payload)
    \/ /\ data.type \in {"joinSession", "webrtc-signal"}
       /\ ~HasPayload(data)

MalformedInbound(event) ==
    \/ "message" \in DOMAIN event /\ ~event.message.parses
    \/ "message" \in DOMAIN event /\ event.message.parses
           /\ LacksField(event.message.data)
    \/ "data" \in DOMAIN event /\ LacksField(event.data)

C19_MalformedMessageIsHarmless ==
    [][MalformedInbound(lastEvent') =>
          /\ process' = "running"
          /\ IsOpen(sockets', lastEvent'.id)
          /\ \A k \in 1..Len(sent') : sent'[k].to = lastEvent'.id
          /\ \A n \in 1..Len(sessions) :
                 lastEvent'.id \notin ParticipantIdSet(sessions[n]) =>
                     \E j \in 1..Len(sessions') : sessions'[j] = sessions[n]
      ]_vars

\* ---- C20 --------------------------------------------------------------------
\* C20: a message that parses and whose type is neither joinSession nor
\* webrtc-signal changes nothing: the session table, every connection's
\* sessionCode and readyState, every interval and every pending timeout are as
\* before, no message is sent and the process keeps running.
HasNoCase(event) ==
    /\ "data" \in DOMAIN event
    /\ event.data.type \notin {"joinSession", "webrtc-signal"}

C20_UnknownTypeIsIgnored ==
    [][HasNoCase(lastEvent') =>
          /\ UNCHANGED <<sessions, sockets, intervals, timeouts, process>>
          /\ sent' = <<>>
      ]_vars

C20_Witness ==
    /\ HasNoCase(lastEvent)
    /\ HasPayload(lastEvent.data)
    /\ HasSession(sessions, "X")
    /\ lastEvent.id \in ParticipantIdSet(GetSession(sessions, "X"))
    /\ ParticipantCount(GetSession(sessions, "X")) = 3
    /\ intervals # {}
    /\ timeouts # {}
    /\ sent = <<>>

\* ---- C21 --------------------------------------------------------------------
\* C21 (as claimed): whenever performShuffle has just run on a session of 0 or
\* 1 participants, from any trigger, the delayed callback included, nobody in
\* the session's links is linked to itself and no shuffle message was sent.
C21_NoAssignmentBelowTwo ==
    (JustShuffled /\ ParticipantCount(ShuffledSession) <= 1) =>
        /\ \A id \in DOMAIN ShuffledSession.links : ShuffledSession.links[id] # id
        /\ ShuffleIndexes = {}

\* ---- C22 --------------------------------------------------------------------
\* C22: after every shuffle round, every participant of the shuffled session
\* has an entry in links; each participant whose connection is open was sent
\* exactly one shuffle message, whose partnerId is its link target and whose
\* partnerName is the registered name of that target; a participant whose
\* connection is not open was sent none, and the others were served all the
\* same.
C22_EveryOpenParticipantIsTold ==
    JustShuffled =>
        \A p \in ParticipantIdSet(ShuffledSession) :
            /\ p \in DOMAIN ShuffledSession.links
            /\ IsOpen(sockets, p) =>
                   /\ Cardinality(IndexesTo(p, "shuffle")) = 1
                   /\ \A k \in IndexesTo(p, "shuffle") :
                          /\ sent[k].partnerId = ShuffledSession.links[p]
                          /\ sent[k].partnerName =
                                 ParticipantNameOf(ShuffledSession, ShuffledSession.links[p])
            /\ ~IsOpen(sockets, p) => IndexesTo(p, "shuffle") = {}

\* the shuffled order is 3, 1, 2 with 1 closing: 3 and 2 are told, 1 is not,
\* and the partner's name differs from the recipient's
C22_Witness ==
    /\ JustShuffled
    /\ ParticipantCount(ShuffledSession) = 3
    /\ ShuffledSession.links = (3 :> 1) @@ (1 :> 2) @@ (2 :> 3)
    /\ sockets[1].readyState = "CLOSING"
    /\ IsOpen(sockets, 2) /\ IsOpen(sockets, 3)
    /\ Cardinality(ShuffleIndexes) = 2
    /\ ParticipantNameOf(ShuffledSession, 2) # ParticipantNameOf(ShuffledSession, 3)

ClientPartner(id) ==
    IF /\ HasSession(sessions, sockets[id].sessionCode)
       /\ id \in DOMAIN GetSession(sessions, sockets[id].sessionCode).links
    THEN GetSession(sessions, sockets[id].sessionCode).links[id]
    ELSE NoPartner

C24_PartnerKeptWhilePresent ==
    [][\A k \in 1..Len(sent') :
           (/\ sent'[k].type = "participantListUpdate"
            /\ ClientPartner(sent'[k].to) # NoPartner
            /\ \E n \in 1..Len(sessions') :
                   {sent'[k].to, ClientPartner(sent'[k].to)} \subseteq
                       ParticipantIdSet(sessions'[n])) =>
               PartnerAfterListUpdate(ClientPartner(sent'[k].to), sent'[k].payload)
                   = ClientPartner(sent'[k].to)
      ]_vars

\* ---- C25 --------------------------------------------------------------------
\* C25: between events, a session has a live interval (its timer field is set
\* and names a live interval of its code) if and only if it has more than 2
\* participants; so a session that drops from 3 to 2 has none any more, and a
\* session that is deleted has none left behind.
HasLiveInterval(session) ==
    /\ session.timer # NoTimer
    /\ \E iv \in intervals : iv.id = session.timer /\ iv.code = session.code

C25_IntervalIffMoreThanTwo ==
    /\ \A n \in 1..Len(sessions) :
           HasLiveInterval(sessions[n]) <=> ParticipantCount(sessions[n]) > 2
    /\ \A n \in 1..Len(sessions) :
           ParticipantCount(sessions[n]) <= 2 =>
               /\ sessions[n].timer = NoTimer
               /\ IntervalsOf(sessions[n].code) = {}
    /\ \A iv \in intervals : HasSession(sessions, iv.code)

\* the last participant of a session that once had three has left: the session
\* is deleted (its delayed shuffle is still pending) and no interval is live
C25_Witness ==
    /\ lastEvent.type = "close"
    /\ lastEvent.destroyed
    /\ timeouts # {}
    /\ intervals = {}
    /\ sessions = <<>>

\* ---- C26 --------------------------------------------------------------------
\* C26: after every shuffle of a session of n >= 2 participants, whatever the
\* permutation, at least one participant's flag is polite: true and at least
\* one participant's flag is polite: false; and with all connections open the
\* messages of the round carry both values.
C26_BothPoliteValuesOccur ==
    (JustShuffled /\ ParticipantCount(ShuffledSession) >= 2) =>
        /\ \E a \in DOMAIN ShuffledSession.links : ShufflePolite(ShuffledSession.links, a)
        /\ \E b \in DOMAIN ShuffledSession.links : ~ShufflePolite(ShuffledSession.links, b)
        /\ AllOpen(ShuffledSession) =>
               /\ \E k \in ShuffleIndexes : sent[k].polite
               /\ \E k \in ShuffleIndexes : ~sent[k].polite

\* the cycle 1 -> 3 -> 2 -> 1: two participants are told polite: true
C26_Witness ==
    /\ JustShuffled
    /\ ParticipantCount(ShuffledSession) = 3
    /\ AllOpen(ShuffledSession)
    /\ ShuffledSession.links = (1 :> 3) @@ (3 :> 2) @@ (2 :> 1)
    /\ Cardinality({k \in ShuffleIndexes : sent[k].polite}) = 2
    /\ Cardinality({k \in ShuffleIndexes : ~sent[k].polite}) = 1

\* ---- C27 --------------------------------------------------------------------
\* C27: a join, a leave, a relay, an interval tick or a delayed shuffle
\* concerns one session code (the code joined, the code of the session left,
\* the sender's sessionCode, the timer's code); the handler leaves every
\* session of another code as it was (participants, links, timer), creates and
\* deletes no session of another code, leaves the intervals of other codes
\* live, and sends messages only to connections that are participants of the
\* session of its code when it has run.
ConcernedCode(event, socks) ==
    IF event.type = "webrtc-signal" THEN socks[event.id].sessionCode ELSE event.code

SessionsOfOtherCodes(tbl, code) == {tbl[n] : n \in {k \in 1..Len(tbl) : tbl[k].code # code}}

C27_SessionIsolation ==
    [][(lastEvent'.type \in {"joinSession", "close", "webrtc-signal", "interval", "timeout"}) =>
          LET code == ConcernedCode(lastEvent', sockets')
          IN  /\ SessionsOfOtherCodes(sessions', code) = SessionsOfOtherCodes(sessions, code)
              /\ {iv \in intervals' : iv.code # code} = {iv \in intervals : iv.code # code}
              /\ \A k \in 1..Len(sent') :
                     /\ HasSession(sessions', code)
                     /\ sent'[k].to \in ParticipantIdSet(GetSession(sessions', code))
      ]_vars

\* the delayed shuffle of X has run on its three participants, one of which is
\* also registered in Y next to a connection that is in Y only
C27_Witness ==
    /\ lastEvent.type = "timeout"
    /\ lastEvent.code = "X"
    /\ HasSession(sessions, "X") /\ HasSession(sessions, "Y")
    /\ ParticipantIdSet(GetSession(sessions, "X")) = {1, 2, 3}
    /\ ParticipantIdSet(GetSession(sessions, "Y")) = {3, 4}
    /\ IsOpen(sockets, 4)
    /\ Len(sent) = 3

====
